---- MODULE Spec2Model ----
(***************************************************************************)
(* State-machine model of the chat backend: the per-user rate limiter, the *)
(* conversation store and the agent orchestration loop of one chat turn    *)
(* (app/services/chat_service.py, app/api/routes/chat.py,                  *)
(* app/api/mcp_server/{server,tools}.py).                                  *)
(*                                                                         *)
(* Texts are sequences of character tokens, Optional values are sequences  *)
(* of length 0 (None) or 1, tables are sets of rows.                       *)
(***************************************************************************)
EXTENDS Integers, Sequences, FiniteSets, TLC

\* ------------------------------------------------------------------ bounds
\* Last minute the clock reaches.
MaxMinute == 1
\* check_and_increment calls a user makes in one minute beyond the limit.
MaxOver == 2
\* POST /chat requests in one behaviour.
MaxTurns == 2
\* Rows the spec-modelled task table holds.
MaxTasks == 1
\* Threads of the server's pool that run check_and_increment at once.
MaxThreads == 2
\* Chat requests handled at once on one conversation.
MaxHandlers == 2

\* --------------------------------------------------------- program constants
\* RateLimiter.__init__(max_requests_per_minute=20)
max_requests == 20
\* _call_openai_with_retry(max_retries=3)
max_retries == 3

\* Authenticated identities (get_current_user yields an int) and the path
\* parameter user_id (a str).
UserIds == {1, 2}
PathIds == {ToString(n) : n \in UserIds}

None == <<>>
Some(x) == <<x>>

\* ------------------------------------------------------------------- state
VARIABLES
  now,                   \* datetime.utcnow() truncated to the minute
  counters,              \* RateLimiter._counters: user_id -> <<count, minute>>
  made,                  \* ghost: check_and_increment calls per user this minute
  prevMade,              \* ghost: the same for the minute before
  last,                  \* ghost: the last check_and_increment call, Optional
  conversation_tbl,      \* table "conversation"
  message_tbl,           \* table "message"
  task_tbl,              \* table of the task CRUD collaborator
  next_conversation_id,
  next_message_id,
  next_task_id,
  pc,                    \* position of the request being handled
  request,               \* the request being handled (or handled last)
  status,                \* HTTP status answered to it, 0 while in flight
  conv,                  \* Optional id of the conversation the turn resolved
  messages,              \* _call_openai_with_retry's transcript list
  retry_count,
  slept,                 \* ghost: seconds passed in time.sleep this turn
  tool_calls,            \* tool calls of the response being processed
  tool_results,          \* what _execute_tool_calls returned for them
  dispatched,            \* ghost: call ids handed to call_tool in that round
  rounds,                \* ghost: _execute_tool_calls invocations this turn
  completions,           \* ghost: <<first, second>> completion requests issued
  api_errors,            \* ghost: non-timeout APIError failures this turn
  crud,                  \* ghost: task_service invocations of this turn
  turn,                  \* ghost: number of POST /chat requests so far
  reply,                 \* Optional answer of the last GET/DELETE request
  threads,               \* thread -> Optional locals of check_and_increment
  admitted,              \* ghost: calls answered True per user this minute
  second_calls,          \* ghost: tool calls the turn's last response carried
                         \* after a tool round
  handlers               \* request -> position and locals of a chat request
                         \* handled at the same time as others

rlVars == <<now, counters, made, prevMade, last>>
dbVars == <<conversation_tbl, message_tbl, task_tbl,
            next_conversation_id, next_message_id, next_task_id>>
turnVars == <<pc, request, status, conv, messages, retry_count, slept,
              tool_calls, tool_results, dispatched, rounds, completions,
              api_errors, crud, turn>>
auxVars == <<reply, threads, admitted, second_calls, handlers>>
vars == <<rlVars, dbVars, turnVars, auxVars>>

\* ----------------------------------------------------------------- helpers
\* d[k] = v on a dict
Put(d, k, v) == [x \in (DOMAIN d) \cup {k} |-> IF x = k THEN v ELSE d[x]]

EmptyDict == [x \in {} |-> 0]

\* ------------------------------------------------------------- RateLimiter
\* Faulty variant: the limit compared with <= (one request too many).
UnderLimit_OffByOne(count) == count <= max_requests

\* "if count < self.max_requests"
UnderLimit(count) == count < max_requests

\* Faulty variant: the minute of the entry never looked at.
NewMinute_Ignored(minute_timestamp, current_minute) == FALSE

\* "if minute_timestamp < current_minute"
NewMinute(minute_timestamp, current_minute) == minute_timestamp < current_minute

\* RateLimiter.check_and_increment: the dict afterwards and the verdict.
check_and_increment(cs, user_id, current_minute) ==
  IF user_id \notin DOMAIN cs
  THEN [counters |-> Put(cs, user_id, <<1, current_minute>>), allowed |-> TRUE]
  ELSE LET count == cs[user_id][1]
           minute_timestamp == cs[user_id][2]
       IN  IF NewMinute(minute_timestamp, current_minute)
           THEN [counters |-> Put(cs, user_id, <<1, current_minute>>),
                 allowed |-> TRUE]
           ELSE IF UnderLimit(count)
           THEN [counters |-> Put(cs, user_id, <<count + 1, minute_timestamp>>),
                 allowed |-> TRUE]
           ELSE [counters |-> cs, allowed |-> FALSE]

\* The limiter's step with the ghosts that count the calls of the minute.
RateLimitStep(user_id, r) ==
  /\ counters' = r.counters
  /\ made' = [made EXCEPT ![user_id] = @ + 1]
  /\ last' = Some([user_id |-> user_id, allowed |-> r.allowed,
                   nth |-> made[user_id] + 1])
  /\ UNCHANGED <<now, prevMade>>

\* A minute boundary passes.
Tick ==
  /\ now < MaxMinute
  /\ now' = now + 1
  /\ prevMade' = made
  /\ made' = [u \in PathIds |-> 0]
  /\ admitted' = [u \in PathIds |-> 0]
  /\ UNCHANGED <<counters, last, dbVars, turnVars, reply, threads,
                 second_calls, handlers>>

\* ChatService.check_rate_limit called on its own.
CheckRateLimit(user_id) ==
  /\ made[user_id] < max_requests + MaxOver
  /\ RateLimitStep(user_id, check_and_increment(counters, user_id, now))
  /\ UNCHANGED <<dbVars, turnVars, auxVars>>

\* The state of the turn variables when no request has been handled.
IdleTurn ==
  /\ pc = "idle"
  /\ request = None
  /\ status = 0
  /\ conv = None
  /\ messages = <<>>
  /\ retry_count = 0
  /\ slept = 0
  /\ tool_calls = <<>>
  /\ tool_results = <<>>
  /\ dispatched = <<>>
  /\ rounds = 0
  /\ completions = <<0, 0>>
  /\ api_errors = 0
  /\ crud = {}
  /\ turn = 0

\* No conversation request answered, every pool thread idle.
IdleAux ==
  /\ reply = None
  /\ threads = [t \in 1..MaxThreads |-> None]
  /\ admitted = [u \in PathIds |-> 0]
  /\ second_calls = 0
  /\ handlers = [h \in 1..MaxHandlers |->
                   [pc |-> "idle", began |-> 0, mark |-> 0, seen |-> {}]]

EmptyDb ==
  /\ conversation_tbl = {}
  /\ message_tbl = {}
  /\ task_tbl = {}
  /\ next_conversation_id = 1
  /\ next_message_id = 1
  /\ next_task_id = 1

\* The limiter after construction.
InitRL ==
  /\ now = 0
  /\ counters = EmptyDict
  /\ made = [u \in PathIds |-> 0]
  /\ prevMade = [u \in PathIds |-> 0]
  /\ last = None
  /\ EmptyDb
  /\ IdleTurn
  /\ IdleAux

NextRL ==
  \/ \E u \in PathIds : CheckRateLimit(u)
  \/ Tick

SpecRL == InitRL /\ [][NextRL]_vars

\* ------------------------------------------- RateLimiter, called concurrently
\* The route is a plain "def": the server runs each request on a thread of
\* its pool, all sharing the one chat_service.  Nothing guards _counters, so
\* a thread can be preempted between reading the entry and writing it.

\* Lines 45-52: the clock and the user's entry as thread t reads them.
BeginCheck(t, user_id) ==
  /\ threads[t] = None
  /\ made[user_id] < max_requests + MaxOver
  /\ made' = [made EXCEPT ![user_id] = @ + 1]
  /\ threads' = [threads EXCEPT ![t] =
       Some([user_id |-> user_id, current_minute |-> now,
             seen |-> [u \in DOMAIN counters \cap {user_id} |-> counters[u]]])]
  /\ UNCHANGED <<now, counters, prevMade, last, admitted, reply,
                 second_calls, handlers, dbVars, turnVars>>

\* Lines 48-66 on what the thread read: the entry it writes, if any, goes
\* into the dict as it is now, and the verdict is returned.
FinishCheck(t) ==
  /\ threads[t] # None
  /\ LET loc == threads[t][1]
         r == check_and_increment(loc.seen, loc.user_id, loc.current_minute)
     IN  /\ counters' = IF r.counters = loc.seen THEN counters
                        ELSE Put(counters, loc.user_id,
                                 r.counters[loc.user_id])
         /\ admitted' = [admitted EXCEPT ![loc.user_id] =
                           @ + (IF r.allowed THEN 1 ELSE 0)]
  /\ threads' = [threads EXCEPT ![t] = None]
  /\ UNCHANGED <<now, made, prevMade, last, reply, second_calls, handlers,
                 dbVars, turnVars>>

\* The concurrent requests are one user's: those contend for one entry.
NextRLConc ==
  \/ \E t \in 1..MaxThreads : BeginCheck(t, "1")
  \/ \E t \in 1..MaxThreads : FinishCheck(t)
  \/ Tick

SpecRLConc == InitRL /\ [][NextRLConc]_vars

\* -------------------------------------------------------------------- text
RECURSIVE lstrip(_)
lstrip(s) == IF s # <<>> /\ Head(s) = " " THEN lstrip(Tail(s)) ELSE s

RECURSIVE rstrip(_)
rstrip(s) ==
  IF s # <<>> /\ s[Len(s)] = " " THEN rstrip(SubSeq(s, 1, Len(s) - 1)) ELSE s

\* str.strip()
strip(s) == rstrip(lstrip(s))

\* "not request.message or len(request.message.strip()) == 0"
IsEmptyMessage(text) == text = <<>> \/ Len(strip(text)) = 0

\* Faulty variant: "x if x is not None else default".
OrDefault_NoneOnly(opt, default) ==
  IF opt = None THEN default ELSE opt[1]

\* "x or default" on an Optional text: None and "" are falsy.
OrDefault(opt, default) ==
  IF opt = None \/ opt[1] = <<>> THEN default ELSE opt[1]

\* "I've processed your request."
FALLBACK == <<"I've processed your request.">>

\* ------------------------------------------------------ conversation store
\* Faulty variant: the ownership filter left out of the query.
ConversationMatches_IdOnly(c, conversation_id, user_id) ==
  c.id = conversation_id

\* where(Conversation.id == conversation_id, Conversation.user_id == user_id)
ConversationMatches(c, conversation_id, user_id) ==
  c.id = conversation_id /\ c.user_id = user_id

\* ChatService.get_or_create_conversation: ok = FALSE is the ValueError.
get_or_create_conversation(tbl, next_id, user_id, conversation_id) ==
  IF conversation_id = None
  THEN [ok |-> TRUE, id |-> next_id,
        tbl |-> tbl \cup {[id |-> next_id, user_id |-> user_id]},
        next_id |-> next_id + 1]
  ELSE IF \E c \in tbl : ConversationMatches(c, conversation_id[1], user_id)
  THEN [ok |-> TRUE, id |-> conversation_id[1], tbl |-> tbl, next_id |-> next_id]
  ELSE [ok |-> FALSE, id |-> 0, tbl |-> tbl, next_id |-> next_id]

\* Faulty variant: the row is built and never added to the session.
store_message_NotAdded(tbl, next_id, conversation_id, user_id, role, content, t) ==
  [tbl |-> tbl, next_id |-> next_id]

\* Faulty variant: role not passed to Message(), which defaults it to "user".
store_message_DefaultRole(tbl, next_id, conversation_id, user_id, role, content, t) ==
  [tbl |-> tbl \cup {[id |-> next_id, conversation_id |-> conversation_id,
                      user_id |-> user_id, role |-> "user", content |-> content,
                      created_at |-> next_id, turn |-> t]},
   next_id |-> next_id + 1]

\* ChatService.store_message; created_at follows the order of insertion.
\* The field turn is a ghost: the request that stored the row.
store_message(tbl, next_id, conversation_id, user_id, role, content, t) ==
  [tbl |-> tbl \cup {[id |-> next_id, conversation_id |-> conversation_id,
                      user_id |-> user_id, role |-> role, content |-> content,
                      created_at |-> next_id, turn |-> t]},
   next_id |-> next_id + 1]

\* order_by(Message.created_at)
RECURSIVE OrderByCreatedAt(_)
OrderByCreatedAt(rows) ==
  IF rows = {} THEN <<>>
  ELSE LET m == CHOOSE x \in rows : \A y \in rows : x.created_at <= y.created_at
       IN  <<m>> \o OrderByCreatedAt(rows \ {m})

\* Faulty variant: the history selected by conversation alone.
get_conversation_history_AnyUser(tbl, conversation_id, user_id) ==
  OrderByCreatedAt({m \in tbl : m.conversation_id = conversation_id})

\* ChatService.get_conversation_history
get_conversation_history(tbl, conversation_id, user_id) ==
  OrderByCreatedAt({m \in tbl : /\ m.conversation_id = conversation_id
                                /\ m.user_id = user_id})

\* ChatService._build_message_history
build_message_history(history, new_message) ==
  [i \in 1..Len(history) |->
     [role |-> history[i].role, content |-> history[i].content]]
  \o <<[role |-> "user", content |-> new_message]>>

\* _build_system_prompt: the fixed instruction text.
system_prompt == <<"You are a helpful task management assistant.">>

\* messages=[{"role": "system", "content": system_prompt}, *messages]
CompletionRequest(transcript) ==
  <<[role |-> "system", content |-> system_prompt]>> \o transcript

\* ----------------------------------------------------------- tool registry
\* tools.TOOLS
TOOLS == {"list_tasks", "get_task", "create_task", "update_task",
          "delete_task", "complete_task"}

\* MCPToolRegistry.get_tool_schemas: the names of self.tools.
get_tool_schemas == TOOLS

\* Faulty variant: the destructive tool withheld from the model.
build_tools_list_NoDelete(schemas) == schemas \ {"delete_task"}

\* ChatService._build_tools_list: one descriptor per schema, here its name.
build_tools_list(schemas) == {tool_name : tool_name \in schemas}

\* The parameters of each tool function of tools.py.
Required(tool_name) ==
  CASE tool_name = "list_tasks" -> {"user_id", "session"}
    [] tool_name = "create_task" -> {"user_id", "title", "session"}
    [] OTHER -> {"user_id", "task_id", "session"}

Optionals(tool_name) ==
  CASE tool_name = "create_task" -> {"description"}
    [] tool_name = "update_task" -> {"title", "description"}
    [] OTHER -> {}

\* Whether tool_func(**kwargs) binds; otherwise Python raises TypeError.
Binds(tool_name, kwargs) ==
  /\ Required(tool_name) \subseteq DOMAIN kwargs
  /\ DOMAIN kwargs \subseteq Required(tool_name) \cup Optionals(tool_name)

\* The rows task_service selects: scoped by id and user.
OwnTask(tasks, user_id, task_id) ==
  {t \in tasks : t.id = task_id /\ t.user_id = user_id}

\* Faulty variant: the operation's change never reaches the table.
Committed_Never(before, after) == before

\* task_service persists each operation before it returns: the table the
\* following statements, and every later session, see.
Committed(before, after) == after

\* The six tool functions of tools.py over the task collaborator.  Each
\* returns the table afterwards, the kind of value returned and the
\* task_service invocation made.
ToolFunc(tool_name, kw, tasks, next_id) ==
  LET own == IF "task_id" \in DOMAIN kw
             THEN OwnTask(tasks, kw.user_id, kw.task_id) ELSE {}
      out(result, tbl, nid) ==
        [raised |-> FALSE, error |-> "", result |-> result,
         tasks |-> Committed(tasks, tbl), next_id |-> nid, crud |-> {[op |-> tool_name, user_id |-> kw.user_id]}]
  IN  CASE tool_name = "list_tasks" -> out("tasks", tasks, next_id)
        [] tool_name = "get_task" ->
             out(IF own = {} THEN "None" ELSE "task", tasks, next_id)
        [] tool_name = "create_task" ->
             out("task",
                 tasks \cup {[id |-> next_id, user_id |-> kw.user_id,
                              title |-> kw.title, is_complete |-> FALSE]},
                 next_id + 1)
        [] tool_name = "update_task" ->
             IF own = {} THEN out("None", tasks, next_id)
             ELSE out("task",
                      (tasks \ own) \cup
                        {[t EXCEPT !.title = IF "title" \in DOMAIN kw
                                             THEN kw.title ELSE @] : t \in own},
                      next_id)
        [] tool_name = "delete_task" ->
             IF own = {} THEN out("False", tasks, next_id)
             ELSE out("True", tasks \ own, next_id)
        [] tool_name = "complete_task" ->
             IF own = {} THEN out("None", tasks, next_id)
             ELSE out("task",
                      (tasks \ own) \cup
                        {[t EXCEPT !.is_complete = ~@] : t \in own},
                      next_id)

Raise(error, tasks, next_id) ==
  [raised |-> TRUE, error |-> error, result |-> "", tasks |-> tasks,
   next_id |-> next_id, crud |-> {}]

\* MCPToolRegistry.call_tool
call_tool(tool_name, kwargs, tasks, next_id) ==
  IF tool_name \notin TOOLS
  THEN Raise("ValueError: tool not found", tasks, next_id)
  ELSE LET kw == Put(kwargs, "session", "session")
       IN  IF Binds(tool_name, kw)
           THEN ToolFunc(tool_name, kw, tasks, next_id)
           ELSE Raise("TypeError", tasks, next_id)

\* --------------------------------------------------- _execute_tool_calls
\* json.loads on the raw argument payload.  A payload is malformed text, or
\* text denoting a JSON array, or text denoting a JSON object.
json_loads(arguments) ==
  [ok |-> arguments.kind # "malformed", value |-> arguments]

\* Faulty variant: tool_args.setdefault("user_id", user_id).
InjectUserId_SetDefault(tool_args, user_id) ==
  IF "user_id" \in DOMAIN tool_args THEN tool_args
  ELSE Put(tool_args, "user_id", user_id)

\* tool_args["user_id"] = user_id
InjectUserId(tool_args, user_id) == Put(tool_args, "user_id", user_id)

\* Faulty variant: no "except Exception" handler in the loop body.
CatchesException_Missing == FALSE

\* "except Exception" is a handler of the loop body.
CatchesException == TRUE

Failure(tc, error) ==
  [tool_call_id |-> tc.id,
   content |-> [tool_name |-> tc.name, error |-> error, result |-> "",
                success |-> FALSE]]

\* The body of the for loop for one tool call.
ExecuteToolCall(tc, user_id, tasks, next_id) ==
  LET parsed == json_loads(tc.arguments)
      same(raised, result, disp) ==
        [raised |-> raised, result |-> result, dispatched |-> disp,
         tasks |-> tasks, next_id |-> next_id, crud |-> {}]
  IN  IF ~parsed.ok
      THEN \* "except json.JSONDecodeError"
           same(FALSE, Failure(tc, "Invalid arguments"), FALSE)
      ELSE IF parsed.value.kind # "object"
      THEN \* item assignment on a non-dict raises TypeError
           same(~CatchesException, Failure(tc, "TypeError"), FALSE)
      ELSE LET tool_args == InjectUserId(parsed.value.fields, user_id)
               r == call_tool(tc.name, tool_args, tasks, next_id)
           IN  IF r.raised
               THEN same(~CatchesException, Failure(tc, r.error), TRUE)
               ELSE [raised |-> FALSE,
                     result |-> [tool_call_id |-> tc.id,
                                 content |-> [tool_name |-> tc.name,
                                              error |-> "",
                                              result |-> r.result,
                                              success |-> TRUE]],
                     dispatched |-> TRUE, tasks |-> r.tasks,
                     next_id |-> r.next_id, crud |-> r.crud]

\* Faulty variant: results.append reached on the success path only.
AfterCall_FailuresDropped(calls, i, user_id, acc) ==
  LET r == ExecuteToolCall(calls[i], user_id, acc.tasks, acc.next_id)
  IN  [raised |-> r.raised,
       results |-> IF r.raised \/ ~r.result.content.success THEN acc.results
                   ELSE Append(acc.results, r.result),
       dispatched |-> IF r.dispatched
                      THEN Append(acc.dispatched, calls[i].id)
                      ELSE acc.dispatched,
       tasks |-> r.tasks, next_id |-> r.next_id,
       crud |-> acc.crud \cup r.crud]

\* One more iteration of the for loop: the accumulated state after call i.
AfterCall(calls, i, user_id, acc) ==
  LET r == ExecuteToolCall(calls[i], user_id, acc.tasks, acc.next_id)
  IN  [raised |-> r.raised,
       results |-> IF r.raised THEN acc.results
                   ELSE Append(acc.results, r.result),
       dispatched |-> IF r.dispatched
                      THEN Append(acc.dispatched, calls[i].id)
                      ELSE acc.dispatched,
       tasks |-> r.tasks, next_id |-> r.next_id,
       crud |-> acc.crud \cup r.crud]

\* Faulty variant: the try statement around the loop, not in it: the first failed
\* call ends the loop.
RECURSIVE ExecuteFrom_TryAroundLoop(_, _, _, _)
ExecuteFrom_TryAroundLoop(calls, i, user_id, acc) ==
  IF \/ i > Len(calls)
     \/ acc.raised
     \/ (acc.results # <<>> /\ ~acc.results[Len(acc.results)].content.success)
  THEN acc
  ELSE ExecuteFrom_TryAroundLoop(calls, i + 1, user_id,
                                 AfterCall(calls, i, user_id, acc))

\* "for tool_call in tool_calls", left early only by an exception.
RECURSIVE ExecuteFrom(_, _, _, _)
ExecuteFrom(calls, i, user_id, acc) ==
  IF i > Len(calls) \/ acc.raised THEN acc
  ELSE ExecuteFrom(calls, i + 1, user_id, AfterCall(calls, i, user_id, acc))

\* ChatService._execute_tool_calls
execute_tool_calls(calls, user_id, tasks, next_id) ==
  ExecuteFrom(calls, 1, user_id,
    [raised |-> FALSE, results |-> <<>>, dispatched |-> <<>>,
     tasks |-> tasks, next_id |-> next_id, crud |-> {}])

\* ------------------------------------------------------------ environment
\* Message texts a client posts: empty, whitespace only, and a word.
Texts == {<<>>, <<" ">>, <<"h">>}

\* Text content of a model response: None, "" or a sentence.
Contents == {None, Some(<<>>), Some(<<"ok">>)}

Obj(fields) == [kind |-> "object", fields |-> fields]

\* The tool invocations a model response is made of.
ToolCallShapes == <<
  [name |-> "create_task", arguments |-> Obj([title |-> "milk"])],
  [name |-> "delete_task",
   arguments |-> Obj([user_id |-> "2", task_id |-> 1])],
  [name |-> "complete_task", arguments |-> [kind |-> "malformed"]],
  [name |-> "drop_tasks", arguments |-> Obj(EmptyDict)],
  [name |-> "complete_task", arguments |-> Obj([task_id |-> 1])],
  [name |-> "get_task", arguments |-> Obj(EmptyDict)],
  [name |-> "list_tasks", arguments |-> [kind |-> "array"]],
  [name |-> "update_task",
   arguments |-> Obj([user_id |-> "1", task_id |-> 1, title |-> "eggs"])],
  [name |-> "list_tasks", arguments |-> Obj([user_id |-> "2"])],
  [name |-> "get_task", arguments |-> Obj([task_id |-> 1])] >>

\* The model assigns the call identifiers; here, the position in the response.
MakeCalls(ix) ==
  [i \in 1..Len(ix) |->
     [id |-> i, name |-> ToolCallShapes[ix[i]].name,
      arguments |-> ToolCallShapes[ix[i]].arguments]]

\* ------------------------------------------------- POST /{user_id}/chat
\* The handler has returned: its locals are gone.
EndTurn(st) ==
  /\ pc' = "done"
  /\ status' = st
  /\ messages' = <<>>
  /\ tool_calls' = <<>>
  /\ tool_results' = <<>>
  /\ dispatched' = <<>>
  /\ rounds' = 0
  /\ completions' = <<0, 0>>
  /\ crud' = {}

\* Faulty variant: the identity check left out.
IdentityMatches_Unchecked(current_user_id, user_id) == TRUE

\* "if str(current_user_id) != user_id: raise HTTPException(401)"
IdentityMatches(current_user_id, user_id) == ToString(current_user_id) = user_id

\* Faulty variant: the limit checked after the conversation was created.
RateLimited_AfterCreate ==
  /\ EndTurn(429)
  /\ conv' = None
  /\ conversation_tbl' = conversation_tbl \cup
       {[id |-> next_conversation_id, user_id |-> request'[1].user_id]}
  /\ next_conversation_id' = next_conversation_id + 1
  /\ UNCHANGED <<message_tbl, next_message_id>>

\* "if not chat_service.check_rate_limit(user_id): raise HTTPException(429)"
RateLimited ==
  /\ EndTurn(429)
  /\ conv' = None
  /\ UNCHANGED <<conversation_tbl, message_tbl,
                 next_conversation_id, next_message_id>>

\* send_chat_message up to the first completion request, which is where
\* send_message -> _call_openai_with_retry first waits for the model.
Post(current_user_id, user_id, conversation_id, text) ==
  /\ pc \in {"idle", "done"}
  /\ turn < MaxTurns
  /\ turn' = turn + 1
  /\ request' = Some([current_user_id |-> current_user_id, user_id |-> user_id,
                      conversation_id |-> conversation_id, message |-> text])
  /\ retry_count' = 0
  /\ slept' = 0
  /\ api_errors' = 0
  /\ second_calls' = 0
  /\ UNCHANGED <<task_tbl, next_task_id, reply, threads, admitted, handlers>>
  /\ IF ~IdentityMatches(current_user_id, user_id)
     THEN /\ EndTurn(401)
          /\ conv' = None
          /\ UNCHANGED <<rlVars, conversation_tbl, message_tbl,
                         next_conversation_id, next_message_id>>
     ELSE
     LET rl == check_and_increment(counters, user_id, now)
         \* chat.py: get_or_create_conversation, store_message
         g1 == get_or_create_conversation(conversation_tbl,
                 next_conversation_id, user_id, conversation_id)
         m1 == store_message(message_tbl, next_message_id, g1.id, user_id,
                             "user", text, turn + 1)
         \* send_message: get_or_create_conversation, store_message,
         \* get_conversation_history, _build_message_history
         g2 == get_or_create_conversation(g1.tbl, g1.next_id, user_id,
                                          Some(g1.id))
         m2 == store_message(m1.tbl, m1.next_id, g2.id, user_id,
                             "user", text, turn + 1)
         history == get_conversation_history(m2.tbl, g2.id, user_id)
     IN
     /\ RateLimitStep(user_id, rl)
     /\ IF ~rl.allowed
        THEN RateLimited
        ELSE IF IsEmptyMessage(text)
        THEN /\ EndTurn(400)
             /\ conv' = None
             /\ UNCHANGED <<conversation_tbl, message_tbl,
                            next_conversation_id, next_message_id>>
        ELSE IF ~g1.ok
        THEN /\ EndTurn(404)
             /\ conv' = None
             /\ UNCHANGED <<conversation_tbl, message_tbl,
                            next_conversation_id, next_message_id>>
        ELSE IF ~g2.ok
        THEN \* ValueError out of send_message: the route answers 404
             /\ EndTurn(404)
             /\ conv' = Some(g1.id)
             /\ conversation_tbl' = g1.tbl
             /\ next_conversation_id' = g1.next_id
             /\ message_tbl' = m1.tbl
             /\ next_message_id' = m1.next_id
        ELSE /\ conv' = Some(g2.id)
             /\ conversation_tbl' = g2.tbl
             /\ next_conversation_id' = g2.next_id
             /\ message_tbl' = m2.tbl
             /\ next_message_id' = m2.next_id
             /\ messages' = build_message_history(history, text)
             /\ pc' = "first"
             /\ status' = 0
             /\ completions' = <<1, 0>>
             /\ tool_calls' = <<>>
             /\ tool_results' = <<>>
             /\ dispatched' = <<>>
             /\ rounds' = 0
             /\ crud' = {}

\* "return assistant_message.content or ...", then send_message stores the
\* assistant message and the route answers 200.
FinalAnswer(content) ==
  LET m == store_message(message_tbl, next_message_id, conv[1],
                         request[1].user_id, "assistant",
                         OrDefault(content, FALLBACK), turn)
  IN  /\ message_tbl' = m.tbl
      /\ next_message_id' = m.next_id
      /\ EndTurn(200)
      /\ retry_count' = 0
      /\ slept' = 0
      /\ UNCHANGED <<conv, request, turn, api_errors,
                     conversation_tbl, next_conversation_id>>

\* The model answers the first completion request of a loop iteration with
\* text content and the tool calls MakeCalls(ix) (none when ix is empty).
FirstResponds(content, ix) ==
  /\ pc = "first"
  /\ UNCHANGED <<rlVars, auxVars>>
  /\ IF ix = <<>>
     THEN FinalAnswer(content) /\ UNCHANGED <<task_tbl, next_task_id>>
     ELSE
     \E calls \in {MakeCalls(ix)} :
     \E r \in {execute_tool_calls(calls, request[1].user_id, task_tbl,
                                  next_task_id)} :
     /\ r.next_id <= MaxTasks + 1
     /\ task_tbl' = r.tasks
     /\ next_task_id' = r.next_id
     /\ UNCHANGED <<conversation_tbl, message_tbl, next_conversation_id,
                    next_message_id, conv, request, turn, api_errors>>
     /\ IF r.raised
        THEN \* "except Exception" of send_message: "Chat service error"
             EndTurn(503) /\ UNCHANGED <<retry_count, slept>>
        ELSE /\ UNCHANGED <<retry_count, slept>>
             /\ messages' = messages
                  \o <<[role |-> "assistant",
                        content |-> OrDefault(content, <<>>),
                        tool_calls |-> calls]>>
                  \o [i \in 1..Len(r.results) |->
                        [role |-> "tool",
                         tool_call_id |-> r.results[i].tool_call_id,
                         content |-> r.results[i].content]]
             /\ tool_calls' = calls
             /\ tool_results' = r.results
             /\ dispatched' = r.dispatched
             /\ crud' = crud \cup r.crud
             /\ rounds' = rounds + 1
             /\ completions' = <<completions[1], completions[2] + 1>>
             /\ pc' = "second"
             /\ status' = 0

\* Faulty variant: the tool calls of this response carried out as well.
SecondResponds_Dispatching(content, ix) ==
  /\ pc = "second"
  /\ FinalAnswer(content)
  /\ second_calls' = Len(ix)
  /\ \E r \in {execute_tool_calls(MakeCalls(ix), request[1].user_id,
                                  task_tbl, next_task_id)} :
       task_tbl' = r.tasks /\ next_task_id' = r.next_id
  /\ UNCHANGED <<rlVars, reply, threads, admitted, handlers>>

\* The model answers the completion request that follows the tool round;
\* tool calls of this response are not looked at.
SecondResponds(content, ix) ==
  /\ pc = "second"
  /\ FinalAnswer(content)
  /\ second_calls' = Len(ix)
  /\ UNCHANGED <<rlVars, task_tbl, next_task_id, reply, threads, admitted,
                 handlers>>

\* Faulty variant: "except APIError", which every failure of the endpoint is.
Retryable_AnyError(err) == TRUE

\* "except APITimeoutError" is the only handler around the requests.
Retryable(err) == err = "APITimeoutError"

\* Faulty variant: a fixed wait of two seconds.
Pow2_Fixed(n) == 2

\* Faulty variant: the loop never gives up.
RetriesLeft_Always(count) == TRUE

\* "if retry_count < max_retries" after the increment
RetriesLeft(count) == count < max_retries

\* 2 ** retry_count
RECURSIVE Pow2(_)
Pow2(n) == IF n = 0 THEN 1 ELSE 2 * Pow2(n - 1)

\* A completion request, the first or the second, fails.
UpstreamFails(err) ==
  /\ pc \in {"first", "second"}
  /\ UNCHANGED <<rlVars, dbVars, conv, request, turn, auxVars>>
  /\ api_errors' = api_errors + (IF err = "APIError" THEN 1 ELSE 0)
  /\ IF Retryable(err)
     THEN /\ retry_count' = retry_count + 1
          /\ IF RetriesLeft(retry_count + 1)
             THEN \* time.sleep(wait_time), then the while loop starts over
                  /\ slept' = slept + Pow2(retry_count + 1)
                  /\ pc' = "first"
                  /\ completions' = <<completions[1] + 1, completions[2]>>
                  /\ UNCHANGED <<status, messages, tool_calls, tool_results,
                                 dispatched, rounds, crud>>
             ELSE \* raise; send_message returns the error; 503
                  /\ slept' = slept
                  /\ EndTurn(503)
     ELSE \* APIError propagates to send_message; 503
          /\ UNCHANGED <<retry_count, slept>>
          /\ EndTurn(503)

\* ------------------------------------------- /{user_id}/conversations routes
\* Faulty variant: the conversation selected by its id alone.
FindConversation_IdOnly(tbl, conversation_id, user_id) ==
  {c \in tbl : c.id = conversation_id}

\* select(Conversation).where(Conversation.id == conversation_id,
\*                            Conversation.user_id == user_id)
FindConversation(tbl, conversation_id, user_id) ==
  {c \in tbl : ConversationMatches(c, conversation_id, user_id)}

\* select(Message).where(Message.conversation_id == conversation_id)
MessagesOf(tbl, conversation_id) ==
  {m \in tbl : m.conversation_id = conversation_id}

\* The answer of a conversation route.  left is a ghost: the messages of
\* the conversation still stored when the answer is given.
Reply(op, st, user_id, conversation_id, msgs, items, left) ==
  Some([op |-> op, status |-> st, user_id |-> user_id,
        conversation_id |-> conversation_id, messages |-> msgs,
        items |-> items, left |-> left])

\* GET /{user_id}/conversations
list_conversations(current_user_id, user_id) ==
  /\ pc \in {"idle", "done"}
  /\ reply' =
       IF ~IdentityMatches(current_user_id, user_id)
       THEN Reply("LIST", 401, user_id, 0, <<>>, {}, 0)
       ELSE Reply("LIST", 200, user_id, 0, <<>>,
                  {[id |-> c.id,
                    message_count |-> Cardinality(MessagesOf(message_tbl, c.id))]
                   : c \in {x \in conversation_tbl : x.user_id = user_id}},
                  0)
  /\ UNCHANGED <<rlVars, dbVars, turnVars, threads, admitted, second_calls,
                 handlers>>

\* GET /{user_id}/conversations/{conversation_id}
get_conversation(current_user_id, user_id, conversation_id) ==
  /\ pc \in {"idle", "done"}
  /\ LET left == Cardinality(MessagesOf(message_tbl, conversation_id))
     IN
     reply' =
       IF ~IdentityMatches(current_user_id, user_id)
       THEN Reply("GET", 401, user_id, conversation_id, <<>>, {}, left)
       ELSE IF FindConversation(conversation_tbl, conversation_id, user_id) = {}
       THEN Reply("GET", 404, user_id, conversation_id, <<>>, {}, left)
       ELSE Reply("GET", 200, user_id, conversation_id,
                  OrderByCreatedAt(MessagesOf(message_tbl, conversation_id)),
                  {}, left)
  /\ UNCHANGED <<rlVars, dbVars, turnVars, threads, admitted, second_calls,
                 handlers>>

\* The largest id of a table, 0 when it is empty.
MaxId(tbl) ==
  IF tbl = {} THEN 0
  ELSE CHOOSE n \in {c.id : c \in tbl} : \A c \in tbl : c.id <= n

\* DELETE /{user_id}/conversations/{conversation_id}.  Neither model
\* configures a cascade (no relationship, no ondelete on Message's foreign
\* key), so session.delete emits one DELETE for the conversation row and
\* what becomes of it is the database's doing.  enforced: the database
\* checks foreign keys, and commit raises IntegrityError while messages
\* refer to the row, which the route does not catch (500).  Otherwise
\* (SQLite's default) the row goes, its messages stay, and the next row
\* inserted takes the largest id in use plus one.
delete_conversation(current_user_id, user_id, conversation_id, enforced) ==
  /\ pc \in {"idle", "done"}
  /\ LET found == FindConversation(conversation_tbl, conversation_id, user_id)
         msgs == MessagesOf(message_tbl, conversation_id)
         left == Cardinality(msgs)
         ans(st) == Reply("DELETE", st, user_id, conversation_id, <<>>, {}, left)
     IN
     IF ~IdentityMatches(current_user_id, user_id)
     THEN reply' = ans(401) /\ UNCHANGED <<conversation_tbl, next_conversation_id>>
     ELSE IF found = {}
     THEN reply' = ans(404) /\ UNCHANGED <<conversation_tbl, next_conversation_id>>
     ELSE IF enforced /\ msgs # {}
     THEN reply' = ans(500) /\ UNCHANGED <<conversation_tbl, next_conversation_id>>
     ELSE /\ reply' = ans(204)
          /\ conversation_tbl' = conversation_tbl \ found
          /\ next_conversation_id' =
               IF enforced THEN next_conversation_id
               ELSE MaxId(conversation_tbl \ found) + 1
  /\ UNCHANGED <<rlVars, turnVars, threads, admitted, second_calls, handlers,
                 message_tbl, task_tbl, next_message_id, next_task_id>>

\* ------------------------------------- chat requests handled concurrently
\* Each request runs on its own thread with its own session; every
\* store_message is session.add and session.commit, and every select reads
\* what is committed at that moment.  The requests below are user "2"'s,
\* posted with a word to conversation 1, and the model endpoint answers
\* them with text or fails.  A row's ghost field turn is turn + h for
\* request h.

HandlerUser == "2"
HandlerConversation == 1
HandlerText == <<"h">>

\* The ids of the rows a select returned.
IdsOf(rows) == {rows[i].id : i \in 1..Len(rows)}

\* What is left unchanged by a step of a concurrent request after admission.
HandlerFrame ==
  UNCHANGED <<rlVars, turnVars, reply, threads, admitted, second_calls,
              conversation_tbl, task_tbl, next_conversation_id, next_task_id>>

\* chat.py lines 101-134: identity, admission, validation, the conversation
\* resolved, the user message stored.
HandlerBegins(h) ==
  /\ handlers[h].pc = "idle"
  /\ \E rl \in {check_and_increment(counters, HandlerUser, now)} :
     \E g \in {get_or_create_conversation(conversation_tbl,
                 next_conversation_id, HandlerUser,
                 Some(HandlerConversation))} :
     \E m \in {store_message(message_tbl, next_message_id, g.id, HandlerUser,
                             "user", HandlerText, turn + h)} :
       /\ rl.allowed
       /\ g.ok
       /\ RateLimitStep(HandlerUser, rl)
       /\ message_tbl' = m.tbl
       /\ next_message_id' = m.next_id
       /\ handlers' = [handlers EXCEPT ![h].pc = "route_stored",
                                       ![h].began = next_message_id]
  /\ UNCHANGED <<turnVars, reply, threads, admitted, second_calls,
                 conversation_tbl, task_tbl, next_conversation_id,
                 next_task_id>>

\* send_message lines 218-229: the conversation resolved again, the user
\* message stored again.
HandlerStores(h) ==
  /\ handlers[h].pc = "route_stored"
  /\ \E m \in {store_message(message_tbl, next_message_id,
                             HandlerConversation, HandlerUser, "user",
                             HandlerText, turn + h)} :
       /\ message_tbl' = m.tbl
       /\ next_message_id' = m.next_id
  /\ handlers' = [handlers EXCEPT ![h].pc = "service_stored"]
  /\ HandlerFrame

\* Faulty variant: the history read from a snapshot taken when the request
\* began.
HandlerReads_Snapshot(h) ==
  /\ handlers[h].pc = "service_stored"
  /\ handlers' = [handlers EXCEPT
       ![h].pc = "waiting",
       ![h].mark = next_message_id,
       ![h].seen = IdsOf(get_conversation_history(
                      {x \in message_tbl : x.id < handlers[h].began},
                      HandlerConversation, HandlerUser))]
  /\ UNCHANGED <<message_tbl, next_message_id>>
  /\ HandlerFrame

\* send_message lines 232-254: the history read, the first completion
\* request issued.  mark is a ghost: the rows with a smaller id were
\* committed before the read.
HandlerReads(h) ==
  /\ handlers[h].pc = "service_stored"
  /\ handlers' = [handlers EXCEPT
       ![h].pc = "waiting",
       ![h].mark = next_message_id,
       ![h].seen = IdsOf(get_conversation_history(
                      message_tbl, HandlerConversation, HandlerUser))]
  /\ UNCHANGED <<message_tbl, next_message_id>>
  /\ HandlerFrame

\* The model answers with text and no tool call; send_message lines
\* 256-270 store the assistant message.
HandlerAnswers(h, content) ==
  /\ handlers[h].pc = "waiting"
  /\ \E m \in {store_message(message_tbl, next_message_id,
                             HandlerConversation, HandlerUser, "assistant",
                             OrDefault(content, FALLBACK), turn + h)} :
       /\ message_tbl' = m.tbl
       /\ next_message_id' = m.next_id
  /\ handlers' = [handlers EXCEPT ![h].pc = "finished"]
  /\ HandlerFrame

\* The completion request fails; nothing more is stored.
HandlerFails(h) ==
  /\ handlers[h].pc = "waiting"
  /\ handlers' = [handlers EXCEPT ![h].pc = "failed"]
  /\ UNCHANGED <<message_tbl, next_message_id>>
  /\ HandlerFrame

\* --------------------------------------------------------- specifications
\* Tool-call lists of the responses in Spec: a mutation alone; a malformed
\* payload before a sibling carrying a foreign user_id; an unregistered
\* tool before a sibling.
RetryLists == {<<1>>, <<3, 2>>, <<4, 5>>}

\* The state when the first chat request of a behaviour arrives: user "1"
\* has had 19 requests counted this minute and user "2" none.  19 posts
\* with an empty message lead there from construction: they count against
\* the limit and touch nothing else, so the tables are still empty.
Init ==
  /\ now = 0
  /\ counters = [u \in {"1"} |-> <<max_requests - 1, 0>>]
  /\ made = [u \in PathIds |-> IF u = "1" THEN max_requests - 1 ELSE 0]
  /\ prevMade = [u \in PathIds |-> 0]
  /\ last = None
  /\ EmptyDb
  /\ IdleTurn
  /\ IdleAux

PostAny ==
  \E cu \in UserIds, u \in PathIds, text \in Texts,
     cid \in {None} \cup {Some(i) : i \in 1..MaxTurns} :
    Post(cu, u, cid, text)

Next ==
  \/ PostAny
  \/ \E content \in Contents, ix \in RetryLists \cup {<<>>} :
       FirstResponds(content, ix)
  \/ \E content \in Contents, ix \in {<<>>, <<1>>} :
       SecondResponds(content, ix)
  \/ \E err \in {"APITimeoutError", "APIError"} : UpstreamFails(err)

Spec == Init /\ [][Next]_vars

\* A request to the model endpoint is answered or fails.
EndpointStep ==
  \/ \E ix \in RetryLists \cup {<<>>} : FirstResponds(None, ix)
  \/ SecondResponds(Some(<<"ok">>), <<>>)
  \/ \E err \in {"APITimeoutError", "APIError"} : UpstreamFails(err)

\* Each user posts a word, to a new conversation or to conversation 1.
NextLive ==
  \/ \E cu \in UserIds, cid \in {None, Some(1)} :
       Post(cu, ToString(cu), cid, <<"h">>)
  \/ EndpointStep

\* The turns with every request to the model endpoint returning or failing
\* in the end (the requests carry timeout=settings.OPENAI_TIMEOUT).
SpecLive == Init /\ [][NextLive]_vars /\ WF_vars(EndpointStep)

\* Responses of up to MaxCalls tool calls, each any of ToolCallShapes.
MaxCalls == 2

AllLists == UNION {[1..n -> 1..Len(ToolCallShapes)] : n \in 1..MaxCalls}

\* The turns in which each user posts a word to a new conversation and the
\* model endpoint answers every request, the first with tool calls and no
\* text: one tool round per turn, over every list of tool calls.
NextTools ==
  \/ \E cu \in UserIds : Post(cu, ToString(cu), None, <<"h">>)
  \/ \E ix \in AllLists : FirstResponds(None, ix)
  \/ SecondResponds(Some(<<"ok">>), <<>>)

SpecTools == Init /\ [][NextTools]_vars

\* Chat, list, get and delete requests of both users, one handled after the
\* other; the chat requests carry a word, and the model endpoint answers
\* them with text, with none, or fails.
NextStore ==
  \/ \E cu \in UserIds, u \in PathIds,
        cid \in {None} \cup {Some(i) : i \in 1..MaxTurns} :
       Post(cu, u, cid, <<"h">>)
  \/ \E content \in {None, Some(<<"ok">>)} : FirstResponds(content, <<>>)
  \/ UpstreamFails("APIError")
  \/ \E cu \in UserIds, u \in PathIds : list_conversations(cu, u)
  \/ \E cu \in UserIds, u \in PathIds, cid \in 1..MaxTurns :
       get_conversation(cu, u, cid)
  \/ \E cu \in UserIds, u \in PathIds, cid \in 1..MaxTurns,
        enforced \in BOOLEAN :
       delete_conversation(cu, u, cid, enforced)

SpecStore == Init /\ [][NextStore]_vars

\* One turn of user "2" creates conversation 1; then MaxHandlers requests
\* of that user on that conversation are handled at once.
NextTurns ==
  \/ turn = 0 /\ Post(2, "2", None, <<"h">>)
  \/ \E content \in {None, Some(<<"ok">>)} : FirstResponds(content, <<>>)
  \/ \E h \in 1..MaxHandlers :
       /\ pc = "done"
       /\ status = 200
       /\ \/ HandlerBegins(h)
          \/ HandlerStores(h)
          \/ HandlerReads(h)
          \/ \E content \in {None, Some(<<"ok">>)} : HandlerAnswers(h, content)
          \/ HandlerFails(h)

SpecTurns == Init /\ [][NextTurns]_vars

\* --------------------------------------------------------------- claim C1
\* C1: for every user and minute, check_and_increment admits the calls
\* numbered 1..20 of that minute and denies the 21st and every later one;
\* the first call of a later minute (nth = 1 again) is admitted whatever
\* was made, admitted or denied, in the minute before.
C1_AdmitsFirstTwenty ==
  last # None => (last[1].allowed <=> last[1].nth <= max_requests)

\* A user denied in one minute (more than 20 calls made) whose first call of
\* the next minute is admitted.
C1_Witness ==
  /\ last # None
  /\ last[1].allowed
  /\ last[1].nth = 1
  /\ prevMade[last[1].user_id] > max_requests

\* ------------------------------------------------------------------ claims
Range(f) == {f[i] : i \in DOMAIN f}

\* The rows the current request stored, oldest first.
TurnRows == {m \in message_tbl : m.turn = turn}

Roles(rows) == [i \in 1..Len(rows) |-> rows[i].role]

\* Whether tool call tc, an object payload, is one call_tool carries out.
Dispatchable(tc, user_id) ==
  /\ tc.arguments.kind = "object"
  /\ tc.name \in TOOLS
  /\ Binds(tc.name,
           Put(Put(tc.arguments.fields, "user_id", user_id),
               "session", "session"))

\* C2: within one turn the tools are executed in at most one round, also
\* when the completion request after the tool round times out and the call
\* is retried.
C2_AtMostOneToolRound == rounds <= 1

\* C3: a successful turn adds exactly one user message and one assistant
\* message; after the first successful turn on a new conversation its
\* history is <<user, assistant>>.
C3_OneUserOneAssistantPerTurn ==
  (pc = "done" /\ status = 200) =>
    /\ Roles(OrderByCreatedAt(TurnRows)) = <<"user", "assistant">>
    /\ request[1].conversation_id = None =>
         Roles(get_conversation_history(message_tbl, conv[1],
                                        request[1].user_id))
           = <<"user", "assistant">>

\* C4: a chat request naming a conversation that does not exist or belongs
\* to another user is answered 404 (once authenticated, admitted and
\* non-empty) and stores no message; a conversation a turn resolved exists
\* and belongs to the caller; 404 is answered for no other reason.
C4_ForeignConversationIs404 ==
  (pc = "done" /\ request # None) =>
    LET rq == request[1]
        owned == \E c \in conversation_tbl :
                   /\ rq.conversation_id # None
                   /\ c.id = rq.conversation_id[1]
                   /\ c.user_id = rq.user_id
        foreign == rq.conversation_id # None /\ ~owned
    IN  /\ (foreign /\ ToString(rq.current_user_id) = rq.user_id
              /\ last[1].allowed /\ ~IsEmptyMessage(rq.message))
           => status = 404
        /\ foreign => TurnRows = {}
        /\ status = 404 => foreign
        /\ conv # None =>
             \E c \in conversation_tbl :
               c.id = conv[1] /\ c.user_id = rq.user_id

\* A 404 for a conversation that exists and belongs to the other user, whose
\* messages are still there.
C4_Witness ==
  /\ pc = "done"
  /\ status = 404
  /\ \E c \in conversation_tbl :
       /\ c.id = request[1].conversation_id[1]
       /\ c.user_id # request[1].user_id
       /\ \E m \in message_tbl : m.conversation_id = c.id

\* C5: every task_service invocation of a turn carries the turn's
\* authenticated user_id, whatever user_id the model put in the payload,
\* and a call that is otherwise well-formed is not rejected for carrying one.
C5_CrudScopedByCaller ==
  /\ \A c \in crud : c.user_id = request[1].user_id
  /\ pc = "second" =>
       \A i \in 1..Len(tool_calls) :
         (/\ Dispatchable(tool_calls[i], request[1].user_id)
          /\ "user_id" \in DOMAIN tool_calls[i].arguments.fields)
         => /\ tool_results[i].content.success
            /\ [op |-> tool_calls[i].name, user_id |-> request[1].user_id]
                 \in crud

\* A tool round in which a call carried another user's id and was carried
\* out for the caller.
C5_Witness ==
  /\ pc = "second"
  /\ \E i \in 1..Len(tool_calls) :
       /\ tool_calls[i].arguments.kind = "object"
       /\ "user_id" \in DOMAIN tool_calls[i].arguments.fields
       /\ tool_calls[i].arguments.fields.user_id # request[1].user_id
       /\ tool_results[i].content.success
       /\ [op |-> tool_calls[i].name, user_id |-> request[1].user_id] \in crud

\* C6: timeouts are retried with at most 3 loop iterations in a turn; the
\* third timeout ends the turn in 503; a non-timeout API error ends the turn
\* in 503 at once, and a turn past its conversation ends in 503 for no
\* other reason.
C6_RetryOnTimeoutOnly ==
  /\ retry_count <= max_retries
  /\ pc \in {"first", "second"} =>
       /\ retry_count < max_retries
       /\ completions[1] = retry_count + 1
       /\ api_errors = 0
  /\ retry_count = max_retries => (pc = "done" /\ status = 503)
  /\ api_errors > 0 => (api_errors = 1 /\ pc = "done" /\ status = 503)
  /\ status = 503 => (retry_count = max_retries \/ api_errors = 1)

\* A turn that ended in 503 on its third timeout.
C6_Witness ==
  /\ pc = "done"
  /\ status = 503
  /\ retry_count = max_retries
  /\ api_errors = 0

\* C7: a turn that fails at the model endpoint answers 503, leaves its user
\* message stored in the conversation and stores no assistant message.
C7_UserMessageKeptOn503 ==
  (pc = "done" /\ status = 503) =>
    /\ conv # None
    /\ \E m \in TurnRows :
         /\ m.role = "user"
         /\ m.content = request[1].message
         /\ m.conversation_id = conv[1]
         /\ m.user_id = request[1].user_id
    /\ \A m \in TurnRows : m.role # "assistant"

\* A turn that answered 503 after at least one timeout was retried.
C7_Witness ==
  /\ pc = "done"
  /\ status = 503
  /\ retry_count > 0
  /\ \E m \in TurnRows : m.role = "user"

\* C8: in a tool round a call with an unparseable payload yields a failure
\* result for that call alone: there is one result per call, every sibling
\* with an object payload is handed to call_tool, a well-formed sibling
\* succeeds, and the turn goes on to the second completion request.
C8_MalformedCallIsolated ==
  /\ status # 503
  /\ pc = "second" =>
       /\ Len(tool_results) = Len(tool_calls)
       /\ \A i \in 1..Len(tool_calls) :
            LET tc == tool_calls[i] IN
            /\ tc.arguments.kind = "malformed" =>
                 /\ ~tool_results[i].content.success
                 /\ tool_results[i].content.error = "Invalid arguments"
                 /\ tool_results[i].tool_call_id = tc.id
                 /\ tc.id \notin Range(dispatched)
            /\ tc.arguments.kind = "object" => tc.id \in Range(dispatched)
            /\ Dispatchable(tc, request[1].user_id) =>
                 tool_results[i].content.success

\* A malformed call followed by a sibling that was carried out.
C8_Witness ==
  /\ pc = "second"
  /\ \E i, j \in 1..Len(tool_calls) :
       /\ i < j
       /\ tool_calls[i].arguments.kind = "malformed"
       /\ ~tool_results[i].content.success
       /\ tool_results[j].content.success
       /\ tool_calls[j].id \in Range(dispatched)

\* C9: a call whose dispatch fails (unregistered name, or the tool raises)
\* yields a failure result for that call, nothing is raised out of the tool
\* round, the siblings are dispatched and the turn does not end in an error.
C9_DispatchFailureIsData ==
  /\ status \notin {500, 503}
  /\ rounds > 0 => pc = "second"
  /\ pc = "second" =>
       \A i \in 1..Len(tool_calls) :
         LET tc == tool_calls[i] IN
         /\ (tc.arguments.kind = "object"
               /\ ~Dispatchable(tc, request[1].user_id)) =>
              /\ i <= Len(tool_results)
              /\ ~tool_results[i].content.success
              /\ tool_results[i].content.error
                   \in {"ValueError: tool not found", "TypeError"}
              /\ tool_results[i].tool_call_id = tc.id
         /\ tc.arguments.kind = "object" => tc.id \in Range(dispatched)

\* An unregistered tool followed by a sibling that was carried out.
C9_Witness ==
  /\ pc = "second"
  /\ \E i, j \in 1..Len(tool_calls) :
       /\ i < j
       /\ tool_calls[i].name \notin TOOLS
       /\ ~tool_results[i].content.success
       /\ tool_results[j].content.success

\* C10: a chat request answered 429 leaves the conversation and message
\* tables as they were.
C10_NoMutationOn429 ==
  [][(turn' # turn /\ status' = 429) =>
       (conversation_tbl' = conversation_tbl /\ message_tbl' = message_tbl)]_vars

\* A request answered 429 while a conversation of the user exists.
C10_Witness ==
  /\ pc = "done"
  /\ status = 429
  /\ \E c \in conversation_tbl : c.user_id = request[1].user_id

\* C11: a chat request with an empty or whitespace-only message is answered
\* 400 and changes nothing: the conversations, the messages and the
\* rate-limit counters are after the request what they were before it.
C11_NoMutationOn400 ==
  [][(turn' # turn /\ status' = 400) =>
       /\ conversation_tbl' = conversation_tbl
       /\ message_tbl' = message_tbl
       /\ counters' = counters]_vars

\* C15: with check_and_increment calls of one user interleaved between the
\* read of the user's entry and its write, once no call is in progress the
\* stored count of the current minute is the number of calls admitted in
\* it, and that number is at most 20.
C15_NoLostIncrement ==
  \A u \in DOMAIN counters :
    ((\A t \in 1..MaxThreads : threads[t] = None) /\ counters[u][2] = now) =>
      /\ counters[u][1] = admitted[u]
      /\ admitted[u] <= max_requests

\* C12: after any sequence of chat, list, get and delete requests, every
\* stored message carries the user_id of the conversation its
\* conversation_id refers to.
C12_MessageOwnerIsConversationOwner ==
  \A m \in message_tbl, c \in conversation_tbl :
    c.id = m.conversation_id => m.user_id = c.user_id

\* C13: a DELETE answered 204 leaves no message of the conversation behind,
\* and every stored message refers to a conversation that exists.
C13_DeleteCascades ==
  /\ (reply # None /\ reply[1].op = "DELETE" /\ reply[1].status = 204) =>
       reply[1].left = 0
  /\ \A m \in message_tbl :
       \E c \in conversation_tbl : c.id = m.conversation_id

\* C14: a GET or DELETE of user B, authenticated as B, for a conversation
\* that user A owns is answered 404, returns no message, and leaves the
\* conversations and the messages as they were.
C14_ForeignGetDeleteIs404 ==
  [][(/\ reply' # reply
      /\ reply'[1].op \in {"GET", "DELETE"}
      /\ reply'[1].status # 401
      /\ \E c \in conversation_tbl :
           /\ c.id = reply'[1].conversation_id
           /\ c.user_id # reply'[1].user_id)
     => /\ reply'[1].status = 404
        /\ reply'[1].messages = <<>>
        /\ conversation_tbl' = conversation_tbl
        /\ message_tbl' = message_tbl]_vars

\* A DELETE answered 404 for a conversation of the other user that holds
\* messages.
C14_Witness ==
  /\ reply # None
  /\ reply[1].op = "DELETE"
  /\ reply[1].status = 404
  /\ reply[1].left > 0
  /\ \E c \in conversation_tbl :
       /\ c.id = reply[1].conversation_id
       /\ c.user_id # reply[1].user_id

\* C16: a tool that returns None or False (nothing found for this user) is
\* reported to the model as a failed call, and the turn does not end in an
\* error.
C16_NotFoundReportedAsFailure ==
  /\ status \notin {500, 503}
  /\ pc = "second" =>
       \A i \in 1..Len(tool_results) :
         tool_results[i].content.result \in {"None", "False"} =>
           ~tool_results[i].content.success

\* C17: the step that ends a turn with 200 stores an assistant message of
\* the turn's conversation whose content is not empty; when the model's
\* final response has no text (None or ""), the content is the fallback.
C17_AssistantMessageNeverEmpty ==
  [][/\ (status = 0 /\ status' = 200) =>
          \E m \in message_tbl' \ message_tbl :
            /\ m.role = "assistant"
            /\ m.content # <<>>
            /\ m.conversation_id = conv[1]
     /\ \A content \in {None, Some(<<>>)} :
          (FirstResponds(content, <<>>) \/ SecondResponds(content, <<>>)) =>
            \E m \in message_tbl' \ message_tbl :
              m.role = "assistant" /\ m.content = FALLBACK]_vars

\* A turn that ended with 200 after a tool round and stored the fallback.
C17_Witness ==
  /\ pc = "done"
  /\ status = 200
  /\ task_tbl # {}
  /\ \E m \in TurnRows : m.role = "assistant" /\ m.content = FALLBACK

\* C18: a chat request whose authenticated identity is not the path user_id
\* is answered 401 and changes neither the rate-limit counters nor the
\* conversations nor the messages, whatever its body.
C18_MismatchIs401First ==
  [][(turn' # turn
      /\ ToString(request'[1].current_user_id) # request'[1].user_id)
     => /\ status' = 401
        /\ counters' = counters
        /\ conversation_tbl' = conversation_tbl
        /\ message_tbl' = message_tbl]_vars

\* A 401 for a request with a whitespace-only message naming a conversation
\* of the authenticated user.
C18_Witness ==
  /\ pc = "done"
  /\ status = 401
  /\ IsEmptyMessage(request[1].message)
  /\ request[1].conversation_id # None
  /\ \E c \in conversation_tbl :
       /\ c.id = request[1].conversation_id[1]
       /\ c.user_id = ToString(request[1].current_user_id)

Sorted(h) ==
  \A i, j \in 1..Len(h) : i < j => h[i].created_at <= h[j].created_at

\* C19: for every conversation and user, get_conversation_history returns
\* rows in non-decreasing created_at order, each with the queried
\* conversation_id and the queried user_id.
C19_HistoryOrderedAndScoped ==
  \A cid \in 1..MaxTurns, u \in PathIds :
    LET h == get_conversation_history(message_tbl, cid, u)
    IN  /\ Sorted(h)
        /\ \A i \in 1..Len(h) :
             h[i].conversation_id = cid /\ h[i].user_id = u

\* A history of three or more rows read from a table holding other rows.
C19_Witness ==
  \E cid \in 1..MaxTurns, u \in PathIds :
    LET h == get_conversation_history(message_tbl, cid, u)
    IN  Len(h) >= 3 /\ \E m \in message_tbl : m \notin Range(h)

\* C20: each row a step stores is, in the history read afterwards for its
\* conversation and user, present exactly once with the role and content
\* that were passed (the request's text as "user", the final answer as
\* "assistant"), after the rows that were there before, which are returned
\* unchanged.
C20_StoreThenReadBack ==
  [][\A m \in message_tbl' \ message_tbl :
       LET before == get_conversation_history(message_tbl,
                                              m.conversation_id, m.user_id)
           after == get_conversation_history(message_tbl',
                                             m.conversation_id, m.user_id)
       IN  /\ Cardinality({i \in 1..Len(after) : after[i].id = m.id}) = 1
           /\ \E i \in 1..Len(after) : after[i] = m /\ i > Len(before)
           /\ SubSeq(after, 1, Len(before)) = before
           /\ m.conversation_id = conv'[1]
           /\ m.user_id = request'[1].user_id
           /\ turn' # turn =>
                (m.role = "user" /\ m.content = request'[1].message)
           /\ turn' = turn =>
                (/\ m.role = "assistant"
                 /\ m.content \in {FALLBACK} \cup
                      {c[1] : c \in Contents \ {None, Some(<<>>)}})]_vars

\* A second successful turn on a conversation: the answer was appended to
\* the rows of the first.
C20_Witness ==
  /\ pc = "done"
  /\ status = 200
  /\ request[1].conversation_id # None
  /\ Len(get_conversation_history(message_tbl, conv[1],
                                  request[1].user_id)) > 3

\* The rows rendered as the transcript renders them.
Render(rows) ==
  [i \in 1..Len(rows) |-> [role |-> rows[i].role, content |-> rows[i].content]]

\* C21: the first completion request of a turn carries the system
\* instruction, then the messages the conversation held before the turn,
\* oldest first, then the turn's user message once.
C21_TranscriptHasUserMessageOnce ==
  (pc = "first" /\ rounds = 0) =>
    CompletionRequest(messages) =
      <<[role |-> "system", content |-> system_prompt]>>
      \o Render(OrderByCreatedAt({m \in message_tbl :
                                    /\ m.conversation_id = conv[1]
                                    /\ m.turn < turn}))
      \o <<[role |-> "user", content |-> request[1].message]>>

\* C22: a timeout of the completion request that follows the tool round is
\* answered by issuing that request again with the same transcript: the
\* first request is not issued again.
C22_SecondRequestRetriedAlone ==
  [][(pc = "second" /\ retry_count' = retry_count + 1 /\ status' = 0) =>
       /\ pc' = "second"
       /\ messages' = messages
       /\ completions'[1] = completions[1]]_vars

\* C25 as stated: three timeouts make the thread sleep 2 + 4 + 8 = 14
\* seconds before the failure surfaces.
C25_SleepsFourteenSeconds ==
  retry_count = max_retries => slept = 14

\* C25, amended: the wait after the n-th timeout is 2^n seconds for n = 1
\* and n = 2, and the third timeout surfaces without a wait, so a turn that
\* fails on three timeouts has slept 2 + 4 = 6 seconds.
C25_SleepsSixSeconds ==
  /\ retry_count = 0 => slept = 0
  /\ retry_count = 1 => slept = 2
  /\ retry_count = 2 => slept = 6
  /\ retry_count = max_retries => slept = 6

\* A turn that ended on its third timeout.
C25_Witness ==
  /\ pc = "done"
  /\ status = 503
  /\ retry_count = max_retries
  /\ slept = 6

\* C23: the tool round returns one result entry per invocation, in the
\* order of the invocations, each with the call identifier of its
\* invocation, and the transcript of the request that follows ends with the
\* model's tool-invocation turn and exactly these entries.
C23_OneResultPerCall ==
  pc = "second" =>
    LET n == Len(tool_calls)
        k == Len(messages) - n
    IN  /\ Len(tool_results) = n
        /\ \A i \in 1..n : tool_results[i].tool_call_id = tool_calls[i].id
        /\ k >= 1
        /\ messages[k].role = "assistant"
        /\ messages[k].tool_calls = tool_calls
        /\ \A i \in 1..n :
             messages[k + i] = [role |-> "tool",
                                tool_call_id |-> tool_calls[i].id,
                                content |-> tool_results[i].content]

\* A round of two calls, one failing to parse and one failing in dispatch.
C23_Witness ==
  /\ pc = "second"
  /\ Len(tool_results) = 2
  /\ \E i, j \in 1..2 :
       /\ tool_calls[i].arguments.kind = "malformed"
       /\ tool_calls[j].arguments.kind = "object"
       /\ tool_calls[j].name \notin TOOLS
       /\ ~tool_results[i].content.success
       /\ ~tool_results[j].content.success

TheSixTools == {"list_tasks", "get_task", "create_task", "update_task",
                "delete_task", "complete_task"}

\* C27: the tools presented with a completion request are the six task
\* operations, every task_service invocation is one of them, and a call
\* naming anything else fails as "tool not found" without one.
C27_ToolSetFixed ==
  /\ build_tools_list(get_tool_schemas) = TheSixTools
  /\ \A c \in crud : c.op \in TheSixTools
  /\ pc = "second" =>
       \A i \in 1..Len(tool_calls) :
         (tool_calls[i].arguments.kind = "object"
            /\ tool_calls[i].name \notin TheSixTools) =>
           /\ ~tool_results[i].content.success
           /\ tool_results[i].content.error = "ValueError: tool not found"
           /\ (Len(tool_calls) = 1 => crud = {})

\* A round whose only call names an unregistered tool.
C27_Witness ==
  /\ pc = "second"
  /\ Len(tool_calls) = 1
  /\ tool_calls[1].name \notin TheSixTools
  /\ ~tool_results[1].content.success
  /\ crud = {}

\* C26: every entry's count is between 1 and 20; a call of user u leaves
\* the entries of the other users as they were; a denied call leaves u's
\* entry as it was; a call in a newer minute than the entry's sets it to
\* (1, current minute); an admitted call in the entry's minute adds one.
C26_EntryWellFormed ==
  [][/\ \A u \in DOMAIN counters' : counters'[u][1] \in 1..max_requests
     /\ (made' # made /\ now' = now) =>
          LET u == last'[1].user_id IN
          /\ DOMAIN counters' = DOMAIN counters \cup {u}
          /\ \A v \in DOMAIN counters : v # u => counters'[v] = counters[v]
          /\ ~last'[1].allowed => counters' = counters
          /\ u \notin DOMAIN counters => counters'[u] = <<1, now>>
          /\ (u \in DOMAIN counters /\ counters[u][2] < now) =>
               (last'[1].allowed /\ counters'[u] = <<1, now>>)
          /\ (u \in DOMAIN counters /\ counters[u][2] = now
                /\ last'[1].allowed) =>
               counters'[u] = <<counters[u][1] + 1, now>>]_vars

\* A user whose full entry of the minute before was reset by the first call
\* of the new minute, next to another user's entry left in the old minute.
C26_Witness ==
  /\ now > 0
  /\ last # None
  /\ counters[last[1].user_id] = <<1, now>>
  /\ prevMade[last[1].user_id] >= max_requests
  /\ \E v \in DOMAIN counters : v # last[1].user_id /\ counters[v][2] < now

\* C24: when the response that follows the tool round carries tool calls,
\* none is carried out and no further request is made: the turn ends with
\* 200 on that step, the tasks are what they were, and the one row stored
\* is the assistant message with the response's text, or the fallback when
\* it has none.
C24_SecondResponseIsFinal ==
  [][/\ (pc = "second" /\ second_calls' > 0) =>
          /\ pc' = "done"
          /\ status' = 200
          /\ task_tbl' = task_tbl
          /\ next_task_id' = next_task_id
          /\ Cardinality(message_tbl' \ message_tbl) = 1
     /\ \A content \in Contents :
          SecondResponds(content, <<1>>) =>
            \E m \in message_tbl' \ message_tbl :
              /\ m.role = "assistant"
              /\ m.content = IF content \in {None, Some(<<>>)} THEN FALLBACK
                             ELSE content[1]]_vars

\* A turn that ended with 200 on a second response that asked for tools.
C24_Witness ==
  /\ pc = "done"
  /\ status = 200
  /\ second_calls > 0
  /\ \E m \in TurnRows : m.role = "assistant"

\* C30: when the completion request that follows the tool round fails and
\* the turn answers 503, no assistant message is stored and the tasks stay
\* as the tool round left them: a task the round created for the caller,
\* and did not delete, exists.
C30_ToolEffectsKeptOn503 ==
  [][(pc = "second" /\ status' = 503) =>
       /\ task_tbl' = task_tbl
       /\ \A m \in message_tbl' : m.turn = turn => m.role # "assistant"
       /\ (/\ [op |-> "create_task", user_id |-> request[1].user_id] \in crud
           /\ \A c \in crud : c.op # "delete_task")
          => \E t \in task_tbl' : t.user_id = request[1].user_id]_vars

\* A first turn that answered 503 and left the task its tool round created.
C30_Witness ==
  /\ pc = "done"
  /\ status = 503
  /\ turn = 1
  /\ task_tbl # {}
  /\ \A m \in TurnRows : m.role # "assistant"

\* C28: a turn waiting for the model endpoint ends, answered 200 or 503,
\* after at most 3 first and 3 second completion requests; a request is
\* answered 200, 404, 429 or 503; and once a turn has ended no row
\* of that turn is added or removed.
C28_TurnTerminates ==
  /\ (pc \in {"first", "second"}) ~> (pc = "done" /\ status \in {200, 503})
  /\ [](/\ completions[1] <= max_retries
        /\ completions[2] <= max_retries
        /\ pc = "done" => status \in {200, 404, 429, 503})
  /\ [][pc = "done" =>
          {m \in message_tbl' : m.turn = turn} = TurnRows]_vars

\* A turn that ended after three first requests, tool rounds and three
\* timeouts.
C28_Witness ==
  /\ pc = "done"
  /\ status = 503
  /\ retry_count = max_retries
  /\ task_tbl # {}
  /\ TurnRows # {}

\* The rows request h has stored.
HandlerRows(h) == {m \in message_tbl : m.turn = turn + h}

\* C29: with chat requests handled at once on one conversation, no append
\* is lost and no two rows share an id: each request's conversation holds
\* the user rows it has stored so far and, once it has finished, its
\* assistant row; and the history a request read holds every row of the
\* conversation committed before the read, the other requests' user
\* messages among them.
C29_NoAppendLost ==
  /\ Cardinality({m.id : m \in message_tbl}) = Cardinality(message_tbl)
  /\ \A h \in 1..MaxHandlers :
       LET rows == HandlerRows(h)
           users == {m \in rows : m.role = "user"}
           assistants == {m \in rows : m.role = "assistant"}
           at == handlers[h].pc
       IN  /\ \A m \in rows : /\ m.conversation_id = HandlerConversation
                              /\ m.user_id = HandlerUser
           /\ Cardinality(users) =
                CASE at = "idle" -> 0
                  [] at = "route_stored" -> 1
                  [] OTHER -> 2
           /\ Cardinality(assistants) = IF at = "finished" THEN 1 ELSE 0
           /\ at \in {"waiting", "finished", "failed"} =>
                {m.id : m \in {x \in message_tbl :
                                 /\ x.conversation_id = HandlerConversation
                                 /\ x.id < handlers[h].mark}}
                  \subseteq handlers[h].seen

\* Both requests have finished, and one of them read its history after the
\* other had stored its user messages and before its own answer.
C29_Witness ==
  /\ \A h \in 1..MaxHandlers : handlers[h].pc = "finished"
  /\ \E h, k \in 1..MaxHandlers :
       /\ h # k
       /\ \E m \in HandlerRows(k) : m.role = "user" /\ m.id \in handlers[h].seen
       /\ \E m \in HandlerRows(h) : m.role = "user" /\ m.id > handlers[k].began

\* C31: for every conversation owned by the requester, the messages that
\* GET /{user_id}/conversations/{id} answers with are the sequence
\* get_conversation_history gives for that conversation and user, and the
\* message_count that GET /{user_id}/conversations reports for it is the
\* length of that sequence.
C31_ReadPathsAgree ==
  [][(reply' # reply /\ reply' # None /\ message_tbl' = message_tbl) =>
       LET r == reply'[1]
       IN  /\ (r.op = "GET" /\ r.status = 200) =>
                r.messages = get_conversation_history(message_tbl,
                               r.conversation_id, r.user_id)
           /\ (r.op = "LIST" /\ r.status = 200) =>
                \A it \in r.items :
                  it.message_count = Len(get_conversation_history(
                                       message_tbl, it.id, r.user_id))]_vars

====
